---- MODULE Spec2Model ----
(***************************************************************************)
(* A model of the arena-backed skip list of db/skiplist.h (the complete    *)
(* second copy of the header, lines 262-573) and of the Arena of           *)
(* util/arena.h.  Assertions are modelled as live (a build without         *)
(* NDEBUG): a failed assert aborts the program.                            *)
(*                                                                         *)
(* Nodes are numbered in allocation order: head_ is node 0, the n-th node  *)
(* made by NewNode is node n.  key[n] is node n's immutable key and        *)
(* next[n][i] its forward pointer next_[i].  A slot that was allocated but *)
(* never written holds Uninit.                                             *)
(***************************************************************************)
EXTENDS Integers, Sequences, FiniteSets, TLC

\* enum { kMaxHeight = 12 }
kMaxHeight == 12

\* Bounds of the exploration.
MaxKey == 3      \* Spec: keys are 1..MaxKey
MaxConcKey == 2  \* SpecConc: keys are 1..MaxConcKey
MaxLuck == 1     \* Spec: rnd_.OneIn(kBranching) succeeds at most MaxLuck times in a row
MaxNodes == 3    \* no more than MaxNodes calls of NewNode after construction
MaxAllocs == 3   \* SpecArena: no more than MaxAllocs allocations

Keys == 1..MaxKey
ConcKeys == 1..MaxConcKey
Lucks == 0..MaxLuck

head_ == 0
nullptr == -1
Uninit == -2

VARIABLES
  key,          \* key[n], n \in 1..Len(key): Node::key of the n-th allocated node
  next,         \* next[n][i]: Node::next_[i] of node n, n \in 0..Len(key)
  max_height_,  \* SkipList::max_height_
  hints,        \* every value max_height_ has ever held (a relaxed load may return any)
  arena_,       \* the Arena: its cursor, blocks and usage counter
  allocs,       \* [p, bytes] of every range the Arena returned to a direct caller
  wr,           \* the call of Insert in progress: its locals and position
  rd,           \* the reader thread's search in progress
  node_,        \* Iterator::node_
  op,           \* the last operation called and what it returned
  status        \* "running", "aborted" (an assert failed) or "ub"

listvars == <<key, next, max_height_, hints, arena_>>
vars == <<key, next, max_height_, hints, arena_, allocs, wr, rd, node_, op, status>>

-----------------------------------------------------------------------------
(* Comparator and node accessors *)

\* Comparator: negative, zero or positive; keys are integers here.
compare_(a, b) == a - b

\* bool Equal(a, b) { return compare_(a, b) == 0; }
Equal(a, b) == compare_(a, b) = 0

\* n->next_[i] as a load sees it: a slot outside the node's array, or one that
\* was never written, holds an indeterminate value.
Slot(nx, n, i) ==
  IF n \in DOMAIN nx /\ i \in DOMAIN nx[n] THEN nx[n][i] ELSE Uninit

\* KeyIsAfterNode with the comparison turned round.
KeyIsAfterNodeReversed(ky, k, n) == (n # nullptr) /\ (compare_(ky[n], k) > 0)

\* KeyIsAfterNode(key, n): n != nullptr && compare_(n->key, key) < 0
KeyIsAfterNode(ky, k, n) == (n # nullptr) /\ (compare_(ky[n], k) < 0)

-----------------------------------------------------------------------------
(* FindGreaterOrEqual, one loop iteration at a time.  A search is a record *)
(* [key, x, level, prev, ret, pc]; pc is "loop" while the while(true) runs,*)
(* "ret" once it returned ret, "ub" once it read an indeterminate pointer. *)

NoPrev == [i \in 0..(kMaxHeight - 1) |-> Uninit]

\* Node* x = head_; int level = GetMaxHight() - 1;
FindInit(k, hint) ==
  [key |-> k, x |-> head_, level |-> hint - 1, prev |-> NoPrev,
   ret |-> Uninit, pc |-> "loop"]

\* FindGreaterOrEqual's loop without the descent: it returns next at the
\* level it started on.
FindGreaterOrEqualStepNoDescent(ky, nx, f, withprev) ==
  LET nxt == Slot(nx, f.x, f.level) IN
  IF nxt = Uninit THEN [f EXCEPT !.pc = "ub"]
  ELSE IF KeyIsAfterNode(ky, f.key, nxt) THEN [f EXCEPT !.x = nxt]
  ELSE LET g == IF withprev THEN [f EXCEPT !.prev[f.level] = f.x] ELSE f IN
       [g EXCEPT !.ret = nxt, !.pc = "ret"]

\* One iteration of the loop of FindGreaterOrEqual(key, prev); withprev is
\* prev != nullptr.
FindGreaterOrEqualStep(ky, nx, f, withprev) ==
  LET nxt == Slot(nx, f.x, f.level) IN
  IF nxt = Uninit THEN [f EXCEPT !.pc = "ub"]
  ELSE IF KeyIsAfterNode(ky, f.key, nxt) THEN [f EXCEPT !.x = nxt]
  ELSE LET g == IF withprev THEN [f EXCEPT !.prev[f.level] = f.x] ELSE f IN
       IF f.level = 0
         THEN [g EXCEPT !.ret = nxt, !.pc = "ret"]
         ELSE [g EXCEPT !.level = f.level - 1]

RECURSIVE FindGreaterOrEqualRun(_, _, _, _)
FindGreaterOrEqualRun(ky, nx, f, withprev) ==
  IF f.pc # "loop" THEN f
  ELSE FindGreaterOrEqualRun(ky, nx, FindGreaterOrEqualStep(ky, nx, f, withprev), withprev)

\* FindGreaterOrEqual(key, prev) on a list nobody is writing to.
FindGreaterOrEqual(ky, nx, mh, k, withprev) ==
  FindGreaterOrEqualRun(ky, nx, FindInit(k, mh), withprev)

-----------------------------------------------------------------------------
(* RandomHeight.  luck is the number of times in a row rnd_.OneIn(4) would *)
(* succeed from now on.                                                    *)

\* The loop of RandomHeight without its test height < kMaxHeight.
RandomHeightUncapped(height, luck) == height + luck

RECURSIVE RandomHeightLoop(_, _)
RandomHeightLoop(height, luck) ==
  IF height < kMaxHeight /\ luck > 0
    THEN RandomHeightLoop(height + 1, luck - 1)
    ELSE height

RandomHeight(luck) == RandomHeightLoop(1, luck)

-----------------------------------------------------------------------------
(* Arena.  Addresses are natural numbers, nullptr's address is 0.  The     *)
(* arena is a record [alloc_ptr_, alloc_bytes_remaining_, blocks,          *)
(* memory_usage_]; blocks holds [base, size] of every block.  An           *)
(* allocation yields [a, result]: the arena afterwards and the pointer     *)
(* returned.  Only Allocate is in the header; the rest follows the         *)
(* design's description of the allocator.                                  *)

\* The standard block size of the fallback policy.
kBlockSize == 4096

\* Arena::Arena(): no block, no room.
ArenaInit ==
  [alloc_ptr_ |-> 0, alloc_bytes_remaining_ |-> 0, blocks |-> <<>>, memory_usage_ |-> 0]

\* Where operator new[] may place a block of n bytes: past every block
\* handed out so far, aligned, after a gap of its choosing.
HeapTop(a) ==
  IF a.blocks = <<>> THEN 16
  ELSE LET b == a.blocks[Len(a.blocks)]
           e == b.base + b.size
       IN ((e + 15) \div 16) * 16

\* AllocateNewBlock(block_bytes): a fresh block, recorded in blocks and
\* counted in memory_usage_.
AllocateNewBlock(a, block_bytes, gap) ==
  LET base == HeapTop(a) + gap IN
  [a |-> [a EXCEPT !.blocks = Append(@, [base |-> base, size |-> block_bytes]),
                   !.memory_usage_ = @ + block_bytes + 8],
   result |-> base]

\* AllocateFallback(bytes): a dedicated block for a request over a quarter
\* of kBlockSize, else a new standard block served from its start.
AllocateFallback(a, bytes, gap) ==
  IF bytes > kBlockSize \div 4 THEN AllocateNewBlock(a, bytes, gap)
  ELSE LET nb == AllocateNewBlock(a, kBlockSize, gap) IN
       [a |-> [nb.a EXCEPT !.alloc_ptr_ = nb.result + bytes,
                           !.alloc_bytes_remaining_ = kBlockSize - bytes],
        result |-> nb.result]

\* Allocate returning the cursor without advancing it.
AllocateNoAdvance(a, bytes, gap) ==
  IF bytes <= a.alloc_bytes_remaining_
    THEN [a |-> [a EXCEPT !.alloc_bytes_remaining_ = @ - bytes],
          result |-> a.alloc_ptr_]
    ELSE AllocateFallback(a, bytes, gap)

\* Arena::Allocate(bytes)
Allocate(a, bytes, gap) ==
  IF bytes <= a.alloc_bytes_remaining_
    THEN [a |-> [a EXCEPT !.alloc_ptr_ = @ + bytes,
                          !.alloc_bytes_remaining_ = @ - bytes],
          result |-> a.alloc_ptr_]
    ELSE AllocateFallback(a, bytes, gap)

\* Arena::AllocateAligned(bytes): the cursor is rounded up to a multiple of
\* 8 first.
AllocateAligned(a, bytes, gap) ==
  LET current_mod == a.alloc_ptr_ % 8
      slop == IF current_mod = 0 THEN 0 ELSE 8 - current_mod
      needed == bytes + slop
  IN IF needed <= a.alloc_bytes_remaining_
       THEN [a |-> [a EXCEPT !.alloc_ptr_ = @ + needed,
                             !.alloc_bytes_remaining_ = @ - needed],
             result |-> a.alloc_ptr_ + slop]
       ELSE AllocateFallback(a, bytes, gap)

\* sizeof(Node) + sizeof(std::atomic<Node*>) * (height - 1), with an 8-byte
\* Key and 8-byte pointers.
NodeBytes(height) == (8 + 8) + 8 * (height - 1)

-----------------------------------------------------------------------------
(* Insert, one shared-memory access at a time.  The list is a record       *)
(* [key, next, max_height_, hints, arena]; a call is a record              *)
(* [pc, key, f, x, height, i].                                             *)

Idle == [pc |-> "idle"]

List ==
  [key |-> key, next |-> next, max_height_ |-> max_height_, hints |-> hints,
   arena |-> arena_]

\* NewNode(key, height): the node's memory comes from the arena, Node(key)
\* sets the key, and the height forward slots are left unwritten.
NewNode(l, k, height) ==
  [l EXCEPT !.arena = AllocateAligned(l.arena, NodeBytes(height), 0).a,
            !.key = Append(l.key, k),
            !.next = [n \in 0..(Len(l.key) + 1) |->
                        IF n <= Len(l.key) THEN l.next[n]
                        ELSE [i \in 0..(height - 1) |-> Uninit]]]

\* Node* prev[kMaxHeight]; Node* x = FindGreaterOrEqual(key, prev): entry
InsertBegin(l, k) ==
  [pc |-> "find", key |-> k, f |-> FindInit(k, l.max_height_),
   x |-> Uninit, height |-> 0, i |-> 0]

\* Insert without its search: every prev[i] is head_.
InsertFindAtHead(l, w) ==
  [l |-> l,
   w |-> [w EXCEPT !.f.prev = [i \in 0..(kMaxHeight - 1) |-> head_],
                   !.x = Slot(l.next, head_, 0),
                   !.pc = "check"]]

\* ... one iteration of that search
InsertFind(l, w) ==
  LET g == FindGreaterOrEqualStep(l.key, l.next, w.f, TRUE) IN
  [l |-> l,
   w |-> [w EXCEPT !.f = g,
                   !.x = g.ret,
                   !.pc = IF g.pc = "loop" THEN "find"
                          ELSE IF g.pc = "ret" THEN "check" ELSE "ub"]]

\* Insert without its assertion (as in a build with NDEBUG).
InsertAssertOff(l, w) == TRUE

\* assert(x == nullptr || !Equal(key, x->key))
InsertAssert(l, w) == w.x = nullptr \/ ~Equal(w.key, l.key[w.x])

\* Insert storing every node's height to max_height_, smaller ones too.
InsertHeightAlwaysStore(l, w, luck) ==
  LET height == RandomHeight(luck) IN
  [l |-> [l EXCEPT !.max_height_ = height, !.hints = @ \cup {height}],
   w |-> [w EXCEPT !.height = height,
                   !.f.prev = [i \in 0..(kMaxHeight - 1) |->
                                 IF i >= l.max_height_ /\ i < height
                                   THEN head_ ELSE w.f.prev[i]],
                   !.pc = IF InsertAssert(l, w) THEN "newnode" ELSE "abort"]]

\* int height = RandomHeight(); if (height > GetMaxHight()) { for (...) prev[i]
\* = head_; max_height_.store(height) }
InsertHeight(l, w, luck) ==
  IF ~InsertAssert(l, w) THEN [l |-> l, w |-> [w EXCEPT !.pc = "abort"]]
  ELSE
    LET height == RandomHeight(luck)
        grow == height > l.max_height_
    IN [l |-> IF grow
                THEN [l EXCEPT !.max_height_ = height, !.hints = @ \cup {height}]
                ELSE l,
        w |-> [w EXCEPT !.height = height,
                        !.f.prev = [i \in 0..(kMaxHeight - 1) |->
                                      IF grow /\ i >= l.max_height_ /\ i < height
                                        THEN head_ ELSE w.f.prev[i]],
                        !.pc = "newnode"]]

\* x = NewNode(key, height); i = 0
InsertNewNode(l, w) ==
  [l |-> NewNode(l, w.key, w.height),
   w |-> [w EXCEPT !.x = Len(l.key) + 1, !.i = 0,
                   !.pc = IF 0 < w.height THEN "own" ELSE "idle"]]

\* The new node's own slot set to end-of-list instead of prev[i]'s successor.
InsertSetOwnNull(l, w) ==
  [l |-> [l EXCEPT !.next[w.x][w.i] = nullptr],
   w |-> [w EXCEPT !.pc = "publish"]]

\* x->NoBarrier_SetNext(i, prev[i]->NoBarrier_Next(i))
InsertSetOwn(l, w) ==
  LET p == w.f.prev[w.i] IN
  IF p = Uninit \/ p = nullptr THEN [l |-> l, w |-> [w EXCEPT !.pc = "ub"]]
  ELSE [l |-> [l EXCEPT !.next[w.x][w.i] = Slot(l.next, p, w.i)],
        w |-> [w EXCEPT !.pc = "publish"]]

\* The splice loop without the store to prev[i]: only i++.
InsertPublishNothing(l, w) ==
  [l |-> l,
   w |-> IF w.i + 1 < w.height
           THEN [w EXCEPT !.i = w.i + 1, !.pc = "own"]
           ELSE Idle]

\* prev[i]->SetNext(i, x); i++
InsertPublish(l, w) ==
  LET p == w.f.prev[w.i] IN
  [l |-> [l EXCEPT !.next[p][w.i] = w.x],
   w |-> IF w.i + 1 < w.height
           THEN [w EXCEPT !.i = w.i + 1, !.pc = "own"]
           ELSE Idle]

\* The splice loop with its two stores swapped: the predecessor is made to
\* point to x before x's own slot is written.
InsertSplicePublishFirst(l, w) ==
  LET p == w.f.prev[w.i] IN
  IF w.pc = "own"
    THEN [l |-> [l EXCEPT !.next[p][w.i] = w.x],
          w |-> [w EXCEPT !.pc = "publish", !.f.ret = Slot(l.next, p, w.i)]]
    ELSE [l |-> [l EXCEPT !.next[w.x][w.i] = w.f.ret],
          w |-> IF w.i + 1 < w.height
                  THEN [w EXCEPT !.i = w.i + 1, !.pc = "own"]
                  ELSE Idle]

\* The splice loop running from the top level of the node down to level 0.
InsertSpliceTopDown(l, w) ==
  LET j == w.height - 1 - w.i
      p == w.f.prev[j]
  IN IF w.pc = "own"
       THEN [l |-> [l EXCEPT !.next[w.x][j] = Slot(l.next, p, j)],
             w |-> [w EXCEPT !.pc = "publish"]]
       ELSE [l |-> [l EXCEPT !.next[p][j] = w.x],
             w |-> IF w.i + 1 < w.height
                     THEN [w EXCEPT !.i = w.i + 1, !.pc = "own"]
                     ELSE Idle]

\* The two stores of one iteration of the splice loop, in program order.
InsertSplice(l, w) ==
  IF w.pc = "own" THEN InsertSetOwn(l, w) ELSE InsertPublish(l, w)

\* The next step of a call of Insert that is past its entry.
InsertStep(l, w, luck) ==
  CASE w.pc = "find" -> InsertFind(l, w)
    [] w.pc = "check" -> InsertHeight(l, w, luck)
    [] w.pc = "newnode" -> InsertNewNode(l, w)
    [] w.pc \in {"own", "publish"} -> InsertSplice(l, w)
    [] OTHER -> [l |-> l, w |-> w]

RECURSIVE InsertRun(_, _, _)
InsertRun(l, w, luck) ==
  IF w.pc \in {"idle", "abort", "ub"} THEN [l |-> l, w |-> w]
  ELSE LET s == InsertStep(l, w, luck) IN InsertRun(s.l, s.w, luck)

\* Insert(key) run from entry to return (or to the failed assertion).
Insert(l, k, luck) == InsertRun(l, InsertBegin(l, k), luck)

-----------------------------------------------------------------------------
(* FindLessThan and FindLast, one loop iteration at a time, on the same    *)
(* search record (prev unused).                                            *)

\* FindLessThan's loop advancing onto a node whose key equals the target.
FindLessThanStepInclusive(ky, nx, f) ==
  LET nxt == Slot(nx, f.x, f.level) IN
  IF nxt = Uninit THEN [f EXCEPT !.pc = "ub"]
  ELSE IF nxt = nullptr \/ compare_(ky[nxt], f.key) > 0
    THEN IF f.level = 0
           THEN [f EXCEPT !.ret = f.x, !.pc = "ret"]
           ELSE [f EXCEPT !.level = f.level - 1]
    ELSE [f EXCEPT !.x = nxt]

\* One iteration of the loop of FindLessThan(key).  The assert at its top is
\* assert(x == head_ || compare_(x->key, key) < 0).
FindLessThanStep(ky, nx, f) ==
  IF ~(f.x = head_ \/ compare_(ky[f.x], f.key) < 0) THEN [f EXCEPT !.pc = "abort"]
  ELSE
    LET nxt == Slot(nx, f.x, f.level) IN
    IF nxt = Uninit THEN [f EXCEPT !.pc = "ub"]
    ELSE IF nxt = nullptr \/ compare_(ky[nxt], f.key) >= 0
      THEN IF f.level = 0
             THEN [f EXCEPT !.ret = f.x, !.pc = "ret"]
             ELSE [f EXCEPT !.level = f.level - 1]
      ELSE [f EXCEPT !.x = nxt]

RECURSIVE FindLessThanRun(_, _, _)
FindLessThanRun(ky, nx, f) ==
  IF f.pc # "loop" THEN f ELSE FindLessThanRun(ky, nx, FindLessThanStep(ky, nx, f))

\* FindLessThan(key) on a list nobody is writing to.
FindLessThan(ky, nx, mh, k) == FindLessThanRun(ky, nx, FindInit(k, mh))

\* FindLast whose loop does not switch to the next list at the end of a level.
FindLastStepNoDescent(nx, f) ==
  LET nxt == Slot(nx, f.x, f.level) IN
  IF nxt = Uninit THEN [f EXCEPT !.pc = "ub"]
  ELSE IF nxt = nullptr
    THEN IF f.level = 0
           THEN [f EXCEPT !.ret = f.x, !.pc = "ret"]
           ELSE f
    ELSE [f EXCEPT !.x = nxt]

\* One iteration of the loop of FindLast() (the record's key is unused).
FindLastStep(nx, f) ==
  LET nxt == Slot(nx, f.x, f.level) IN
  IF nxt = Uninit THEN [f EXCEPT !.pc = "ub"]
  ELSE IF nxt = nullptr
    THEN IF f.level = 0
           THEN [f EXCEPT !.ret = f.x, !.pc = "ret"]
           ELSE [f EXCEPT !.level = f.level - 1]
    ELSE [f EXCEPT !.x = nxt]

RECURSIVE FindLastRun(_, _)
FindLastRun(nx, f) ==
  IF f.pc # "loop" THEN f ELSE FindLastRun(nx, FindLastStep(nx, f))

\* FindLast() on a list nobody is writing to.
FindLast(nx, mh) == FindLastRun(nx, FindInit(0, mh))

-----------------------------------------------------------------------------
(* Contains and the Iterator.  Each operation yields [node_, ret, status]: *)
(* the iterator's node_ afterwards, the value returned ("void" for none)   *)
(* and "running", "aborted" (an assert failed) or "ub" (an indeterminate or*)
(* null pointer was dereferenced).                                         *)

Outcome(n, ret, st) == [node_ |-> n, ret |-> ret, status |-> st]

\* How a finished search ends the operation that ran it.
SearchStatus(f) == IF f.pc = "ret" THEN "running" ELSE IF f.pc = "abort" THEN "aborted" ELSE "ub"

\* Contains(key): true, or the identifier flase the source returns otherwise.
ContainsResult(ky, k, x) ==
  IF x # nullptr /\ Equal(k, ky[x]) THEN "true" ELSE "flase"

Contains(l, k) ==
  LET f == FindGreaterOrEqual(l.key, l.next, l.max_height_, k, FALSE) IN
  IF f.pc = "ret" THEN ContainsResult(l.key, k, f.ret) ELSE "ub"

\* Iterator::Valid(): node_ != nullptr
Valid(n) == n # nullptr

\* The accessors without their assertion.
AssertValidOff(n) == TRUE

\* assert(Valid()) at the top of key(), Next() and Prev()
AssertValid(n) == Valid(n)

\* n can be dereferenced: it points to a constructed node.
IsNode(l, n) == n \in 0..Len(l.key)

\* A call of Iterator::Valid(): node_ stays, the answer is returned.
IteratorValid(l, n) == Outcome(n, IF Valid(n) THEN "true" ELSE "false", "running")

\* Iterator::key(): assert(Valid()); return node_->key
IteratorKey(l, n) ==
  IF ~AssertValid(n) THEN Outcome(n, "void", "aborted")
  ELSE IF ~IsNode(l, n) \/ n = head_ THEN Outcome(n, "void", "ub")
  ELSE Outcome(n, l.key[n], "running")

\* Iterator::Next(): assert(Valid()); return node_->Next(0)  -- node_ is not
\* assigned.
IteratorNext(l, n) ==
  IF ~AssertValid(n) THEN Outcome(n, "void", "aborted")
  ELSE IF ~IsNode(l, n) THEN Outcome(n, "void", "ub")
  ELSE Outcome(n, Slot(l.next, n, 0), "running")

\* if (node_ == list_->head_) node_ = nullptr
HeadToNull(n) == IF n = head_ THEN nullptr ELSE n

\* Iterator::Prev(): assert(Valid()); node_ = FindLessThan(node_->key); head
\* becomes nullptr
IteratorPrev(l, n) ==
  IF ~AssertValid(n) THEN Outcome(n, "void", "aborted")
  ELSE IF ~IsNode(l, n) \/ n = head_ THEN Outcome(n, "void", "ub")
  ELSE LET f == FindLessThan(l.key, l.next, l.max_height_, l.key[n]) IN
       IF f.pc = "ret" THEN Outcome(HeadToNull(f.ret), "void", "running")
       ELSE Outcome(n, "void", SearchStatus(f))

\* Iterator::Seek(target): node_ = FindGreaterOrEqual(key, nullptr).  The
\* argument is the iterator's key, not target: key() is what is searched for.
IteratorSeek(l, n, target) ==
  LET k == IteratorKey(l, n) IN
  IF k.status # "running" THEN Outcome(n, "void", k.status)
  ELSE LET f == FindGreaterOrEqual(l.key, l.next, l.max_height_, k.ret, FALSE) IN
       IF f.pc = "ret" THEN Outcome(f.ret, "void", "running")
       ELSE Outcome(n, "void", SearchStatus(f))

\* Iterator::SeekToFirst(): node_ = list_->head_->Next(0)
IteratorSeekToFirst(l, n) ==
  LET nxt == Slot(l.next, head_, 0) IN
  IF nxt = Uninit THEN Outcome(n, "void", "ub") ELSE Outcome(nxt, "void", "running")

\* Iterator::SeekToLast(): node_ = FindLast(); head becomes nullptr
IteratorSeekToLast(l, n) ==
  LET f == FindLast(l.next, l.max_height_) IN
  IF f.pc = "ret" THEN Outcome(HeadToNull(f.ret), "void", "running")
  ELSE Outcome(n, "void", SearchStatus(f))

-----------------------------------------------------------------------------
(* Views of the list used to state properties *)

\* The nodes on the level-i chain after node n, in order (at most fuel of them).
RECURSIVE ChainFrom(_, _, _, _)
ChainFrom(nx, i, n, fuel) ==
  LET nxt == Slot(nx, n, i) IN
  IF fuel = 0 \/ nxt = nullptr \/ nxt = Uninit \/ nxt \notin DOMAIN nx THEN <<>>
  ELSE <<nxt>> \o ChainFrom(nx, i, nxt, fuel - 1)

\* The level-i chain starting at head_.
Chain(i) == ChainFrom(next, i, head_, Len(key) + 1)

\* The first node on the level-0 chain whose key is >= k, nullptr if none.
LowerBound(k) ==
  LET c == Chain(0)
      js == {j \in 1..Len(c) : key[c[j]] >= k}
  IN IF js = {} THEN nullptr ELSE c[CHOOSE j \in js : \A j2 \in js : j <= j2]

\* The last node on the level-0 chain whose key is < k, nullptr if none.
StrictPredecessor(k) ==
  LET c == Chain(0)
      js == {j \in 1..Len(c) : key[c[j]] < k}
  IN IF js = {} THEN nullptr ELSE c[CHOOSE j \in js : \A j2 \in js : j >= j2]

-----------------------------------------------------------------------------
(* Construction *)

\* SkipList(cmp, arena): head_ = NewNode(0, kMaxHeight), max_height_ = 1, and
\* every forward pointer of head_ set to nullptr.
SkipListInit ==
  [key |-> <<>>,
   next |-> [n \in {head_} |-> [i \in 0..(kMaxHeight - 1) |-> nullptr]],
   max_height_ |-> 1,
   hints |-> {1},
   arena |-> AllocateAligned(ArenaInit, NodeBytes(kMaxHeight), 0).a]

NoOp == [name |-> "Iterator", arg |-> 0, from |-> nullptr, ret |-> "void"]

\* A SkipList on a fresh Arena and an Iterator(list) on it: node_ = nullptr.
Init ==
  /\ key = SkipListInit.key
  /\ next = SkipListInit.next
  /\ max_height_ = SkipListInit.max_height_
  /\ hints = SkipListInit.hints
  /\ arena_ = SkipListInit.arena
  /\ allocs = <<>>
  /\ wr = Idle
  /\ rd = Idle
  /\ node_ = nullptr
  /\ op = NoOp
  /\ status = "running"

SetList(l) ==
  /\ key' = l.key
  /\ next' = l.next
  /\ max_height_' = l.max_height_
  /\ hints' = l.hints
  /\ arena_' = l.arena

-----------------------------------------------------------------------------
(* Spec: one thread calls the operations one after the other, each call    *)
(* running from entry to return.                                           *)

Called(name, arg, ret) == [name |-> name, arg |-> arg, from |-> node_, ret |-> ret]

CallInsert ==
  \E k \in Keys, luck \in Lucks :
    /\ status = "running"
    /\ Len(key) < MaxNodes
    /\ LET s == Insert(List, k, luck) IN
         /\ SetList(s.l)
         /\ status' = IF s.w.pc = "idle" THEN "running"
                      ELSE IF s.w.pc = "abort" THEN "aborted" ELSE "ub"
    /\ op' = Called("Insert", k, "void")
    /\ UNCHANGED <<allocs, wr, rd, node_>>

CallContains ==
  \E k \in Keys :
    /\ status = "running"
    /\ LET c == Contains(List, k) IN
         /\ op' = Called("Contains", k, c)
         /\ status' = IF c = "ub" THEN "ub" ELSE "running"
    /\ UNCHANGED <<listvars, allocs, wr, rd, node_>>

\* An iterator operation that also stores to max_height_.
IteratorCallStoring(name, arg, o) ==
  /\ status = "running"
  /\ node_' = o.node_
  /\ status' = o.status
  /\ op' = Called(name, arg, o.ret)
  /\ max_height_' = kMaxHeight
  /\ UNCHANGED <<key, next, hints, arena_, allocs, wr, rd>>

\* An iterator operation whose outcome is o.
IteratorCall(name, arg, o) ==
  /\ status = "running"
  /\ node_' = o.node_
  /\ status' = o.status
  /\ op' = Called(name, arg, o.ret)
  /\ UNCHANGED <<listvars, allocs, wr, rd>>

CallIterator == IteratorCall("Iterator", 0, Outcome(nullptr, "void", "running"))
CallValid == IteratorCall("Valid", 0, IteratorValid(List, node_))
CallKey == IteratorCall("key", 0, IteratorKey(List, node_))
CallNext == IteratorCall("Next", 0, IteratorNext(List, node_))
CallPrev == IteratorCall("Prev", 0, IteratorPrev(List, node_))
CallSeek == \E target \in Keys : IteratorCall("Seek", target, IteratorSeek(List, node_, target))
CallSeekToFirst == IteratorCall("SeekToFirst", 0, IteratorSeekToFirst(List, node_))
CallSeekToLast == IteratorCall("SeekToLast", 0, IteratorSeekToLast(List, node_))

Next ==
  \/ CallInsert
  \/ CallContains
  \/ CallIterator
  \/ CallValid
  \/ CallKey
  \/ CallNext
  \/ CallPrev
  \/ CallSeek
  \/ CallSeekToFirst
  \/ CallSeekToLast

Spec == Init /\ [][Next]_vars

-----------------------------------------------------------------------------
(* SpecConc: one writer thread runs Insert one shared-memory access at a   *)
(* time, and one reader thread runs a search one loop iteration at a time, *)
(* in any interleaving.  The reader's record is [pc, kind, hint, f, at0,   *)
(* atret]: which search it runs, the height hint it loaded, the search     *)
(* record, and what the level-0 chain held for it when the search came to  *)
(* level 0 and when it returned.                                           *)

Kinds == {"FindGreaterOrEqual", "FindLessThan", "FindLast"}

NullToHead(n) == IF n = nullptr THEN head_ ELSE n

\* What the search would return from the level-0 chain as it stands.
Expected(kind, k) ==
  CASE kind = "FindGreaterOrEqual" -> LowerBound(k)
    [] kind = "FindLessThan" -> NullToHead(StrictPredecessor(k))
    [] kind = "FindLast" -> NullToHead(StrictPredecessor(MaxKey + 1))

\* One loop iteration of the reader's search; the reader passes no prev.
SearchStep(kind, f) ==
  CASE kind = "FindGreaterOrEqual" -> FindGreaterOrEqualStep(key, next, f, FALSE)
    [] kind = "FindLessThan" -> FindLessThanStep(key, next, f)
    [] kind = "FindLast" -> FindLastStep(next, f)

\* The writer enters Insert(k).
WriterCall ==
  \E k \in ConcKeys :
    /\ status = "running"
    /\ wr.pc = "idle"
    /\ Len(key) < MaxNodes
    /\ wr' = InsertBegin(List, k)
    /\ UNCHANGED <<listvars, allocs, rd, node_, op, status>>

\* The writer's next step.
WriterStep ==
  \E luck \in (IF wr.pc = "check" THEN Lucks ELSE {0}) :
    /\ status = "running"
    /\ wr.pc \notin {"idle", "abort", "ub"}
    /\ LET s == InsertStep(List, wr, luck) IN
         /\ SetList(s.l)
         /\ wr' = s.w
         /\ status' = IF s.w.pc = "abort" THEN "aborted"
                      ELSE IF s.w.pc = "ub" THEN "ub" ELSE "running"
    /\ UNCHANGED <<allocs, rd, node_, op>>

\* The keys whose Insert has returned.
Returned ==
  {key[n] : n \in 1..Len(key)} \ (IF wr.pc \in {"own", "publish"} THEN {wr.key} ELSE {})

\* The reader enters a search: GetMaxHight() is a relaxed load, which may
\* return any value max_height_ has held.
ReaderCall ==
  \E kind \in Kinds, k \in ConcKeys, hint \in hints :
    /\ status = "running"
    /\ rd.pc \in {"idle", "ret"}
    /\ kind = "FindLast" => k = 1
    /\ rd' = [pc |-> "loop", kind |-> kind, hint |-> hint, f |-> FindInit(k, hint),
              at0 |-> IF hint = 1 THEN Expected(kind, k) ELSE Uninit,
              atret |-> Uninit]
    /\ UNCHANGED <<listvars, allocs, wr, node_, op, status>>

\* The reader's next loop iteration.
ReaderStep ==
  /\ status = "running"
  /\ rd.pc = "loop"
  /\ LET g == SearchStep(rd.kind, rd.f) IN
       /\ rd' = [rd EXCEPT !.f = g,
                           !.pc = g.pc,
                           !.at0 = IF rd.f.level > 0 /\ g.level = 0
                                     THEN Expected(rd.kind, rd.f.key) ELSE @,
                           !.atret = IF g.pc = "ret"
                                       THEN Expected(rd.kind, rd.f.key) ELSE @]
       /\ status' = IF g.pc = "abort" THEN "aborted"
                    ELSE IF g.pc = "ub" THEN "ub" ELSE "running"
  /\ UNCHANGED <<listvars, allocs, wr, node_, op>>

NextConc ==
  \/ WriterCall
  \/ WriterStep
  \/ ReaderCall
  \/ ReaderStep

SpecConc == Init /\ [][NextConc]_vars

-----------------------------------------------------------------------------
(* SpecArena: a caller allocates from a fresh Arena.                       *)

\* The request sizes tried: none, small, a quarter block and just over it,
\* and most of a block.
ArenaSizes == {0, 1, 8, kBlockSize \div 4, kBlockSize \div 4 + 1, 3000}

\* The gaps operator new[] may leave between two blocks.
Gaps == {0, 16}

InitArena ==
  /\ key = SkipListInit.key
  /\ next = SkipListInit.next
  /\ max_height_ = SkipListInit.max_height_
  /\ hints = SkipListInit.hints
  /\ arena_ = ArenaInit
  /\ allocs = <<>>
  /\ wr = Idle
  /\ rd = Idle
  /\ node_ = nullptr
  /\ op = NoOp
  /\ status = "running"

\* A call whose outcome is r = [a, result].
ArenaCall(name, bytes, r) ==
  /\ Len(allocs) < MaxAllocs
  /\ arena_' = r.a
  /\ allocs' = Append(allocs, [p |-> r.result, bytes |-> bytes])
  /\ op' = [name |-> name, arg |-> bytes, from |-> arena_.alloc_ptr_, ret |-> r.result]
  /\ UNCHANGED <<key, next, max_height_, hints, wr, rd, node_, status>>

CallAllocate ==
  \E bytes \in ArenaSizes, gap \in Gaps :
    ArenaCall("Allocate", bytes, Allocate(arena_, bytes, gap))

CallAllocateAligned ==
  \E bytes \in ArenaSizes, gap \in Gaps :
    ArenaCall("AllocateAligned", bytes, AllocateAligned(arena_, bytes, gap))

NextArena ==
  \/ CallAllocate
  \/ CallAllocateAligned

SpecArena == InitArena /\ [][NextArena]_vars

-----------------------------------------------------------------------------
(* Properties *)

\* The keys of the nodes constructed so far.
Inserted == {key[n] : n \in 1..Len(key)}

\* The keys of S in descending order.
RECURSIVE Descending(_)
Descending(S) ==
  IF S = {} THEN <<>>
  ELSE LET m == CHOOSE x \in S : \A y \in S : y <= x IN <<m>> \o Descending(S \ {m})

\* The keys seen by Prev() after Prev() from node n until Valid() is false
\* (at most fuel of them).
RECURSIVE BackwardFrom(_, _)
BackwardFrom(n, fuel) ==
  IF n = nullptr \/ fuel = 0 THEN <<>>
  ELSE <<key[n]>> \o BackwardFrom(IteratorPrev(List, n).node_, fuel - 1)

\* The keys seen by SeekToLast() and Prev() until Valid() is false.
BackwardWalk == BackwardFrom(IteratorSeekToLast(List, node_).node_, Len(key) + 1)

\* C1 (SpecConc): in every state, also between the steps of an Insert, the
\* keys along the level-0 chain from head_ are strictly increasing under the
\* comparator, and no two nodes hold the same key.
C1_Level0StrictlyIncreasing ==
  LET c == Chain(0) IN
  /\ \A j \in 1..(Len(c) - 1) : compare_(key[c[j]], key[c[j + 1]]) < 0
  /\ \A m, n \in 1..Len(key) : m # n => key[m] # key[n]

\* An Insert is between the two levels of its splice, with two nodes on the
\* level-0 chain.
C1_Witness == wr.pc = "own" /\ wr.i = 1 /\ Len(Chain(0)) = 2

\* C2 (Spec): Contains(k) returns true for every inserted k and false for
\* every k never inserted.
C2_ContainsRoundTrip ==
  (op.name = "Contains" /\ status = "running")
    => op.ret = (IF op.arg \in Inserted THEN "true" ELSE "false")

\* C3 (Spec): SeekToFirst() lands on the first node of the level-0 chain and
\* each Next() moves the iterator from its node to that node's level-0
\* successor (or to none).
C3_ForwardIteration ==
  status = "running" =>
    /\ op.name = "SeekToFirst" => node_ = LowerBound(1)
    /\ op.name = "Next" => node_ = Slot(next, op.from, 0)

\* C4 (Spec): SeekToLast() lands on the node with the greatest key (none on
\* an empty list), each Prev() lands on the node with the greatest key
\* strictly less than the current one (none if there is none), and
\* SeekToLast() with repeated Prev() visits exactly the inserted keys, each
\* once, in descending order.
C4_BackwardIteration ==
  status = "running" =>
    /\ op.name = "SeekToLast" => node_ = StrictPredecessor(MaxKey + 1)
    /\ op.name = "Prev" => node_ = StrictPredecessor(key[op.from])
    /\ BackwardWalk = Descending(Inserted)

\* Prev() has moved the iterator to a node of a three-node list.
C4_Witness ==
  op.name = "Prev" /\ status = "running" /\ node_ # nullptr /\ Len(key) = 3

\* C5 (Spec): Seek(target) leaves the iterator on the node with the smallest
\* key >= target, and invalid exactly when no key is >= target.
C5_SeekLowerBound ==
  (op.name = "Seek" /\ status = "running") => node_ = LowerBound(op.arg)

\* C6 (SpecConc): every node reachable from head_ along level i is a
\* constructed node whose own level-i pointer has been written; the writer
\* writes the new node's slot i while the node is not yet reachable at level
\* i, and no thread ever reads an indeterminate pointer.
C6_PublishedNodesComplete ==
  /\ \A i \in 0..(kMaxHeight - 1) :
       LET c == Chain(i) IN
       \A j \in 1..Len(c) :
         /\ c[j] \in 1..Len(key)
         /\ Slot(next, c[j], i) # Uninit
  /\ wr.pc = "own" =>
       LET c == Chain(wr.i) IN \A j \in 1..Len(c) : c[j] # wr.x
  /\ wr.pc = "publish" => Slot(next, wr.x, wr.i) # Uninit
  /\ status # "ub"

\* The reader's search stands on the node the writer is still splicing in
\* at a higher level.
C6_Witness ==
  wr.pc \in {"own", "publish"} /\ wr.i = 1 /\ rd.pc = "loop" /\ rd.f.x = wr.x

\* C7 as stated (SpecConc): whatever hint it started from, FindGreaterOrEqual
\* returns the first node with key >= the search key of the level-0 chain as
\* it stood when the search came to level 0.
C7_ResultOfChainAtLevel0 ==
  (rd.pc = "ret" /\ rd.kind = "FindGreaterOrEqual") => rd.f.ret = rd.at0

\* C7 as amended (SpecConc): whatever hint it started from, FindGreaterOrEqual
\* returns the first node with key >= the search key of the level-0 chain as
\* it stands when the search returns.
C7_ResultOfChainAtReturn ==
  (rd.pc = "ret" /\ rd.kind = "FindGreaterOrEqual") => rd.f.ret = rd.atret

\* A search that started from the new, larger hint while head_ had no link
\* yet at that level has returned a node.
C7_Witness ==
  /\ rd.pc = "ret" /\ rd.kind = "FindGreaterOrEqual"
  /\ rd.hint = max_height_ /\ rd.hint > 1
  /\ Slot(next, head_, rd.hint - 1) = nullptr
  /\ rd.f.ret # nullptr

C9_AccessorsAssertValid ==
  [][op'.name \in {"key", "Next", "Prev"}
       => /\ (status' = "aborted") <=> (node_ = nullptr)
          /\ (node_ # nullptr) => status' = "running"]_vars

\* key() has tripped the assertion on a list that holds nodes.
C9_Witness == op.name = "key" /\ status = "aborted" /\ Len(key) > 0

\* No two ranges the Arena returned share a byte.
NoOverlap ==
  \A i, j \in 1..Len(allocs) :
    i < j => \/ allocs[i].p + allocs[i].bytes <= allocs[j].p
             \/ allocs[j].p + allocs[j].bytes <= allocs[i].p
             \/ allocs[i].bytes = 0
             \/ allocs[j].bytes = 0

\* C10 (SpecArena): the ranges returned never overlap; an Allocate that fits
\* in the active block returns the old cursor and moves the cursor and the
\* remaining count by exactly bytes, taking no block; one that does not fit
\* returns the start of a block the fallback path took, and the cursor is
\* where the fallback path left it.
C10_ArenaNoOverlap ==
  /\ []NoOverlap
  /\ [][(op'.name = "Allocate" /\ Len(allocs') = Len(allocs) + 1) =>
          IF op'.arg <= arena_.alloc_bytes_remaining_
            THEN /\ op'.ret = arena_.alloc_ptr_
                 /\ arena_'.alloc_ptr_ = arena_.alloc_ptr_ + op'.arg
                 /\ arena_'.alloc_bytes_remaining_ = arena_.alloc_bytes_remaining_ - op'.arg
                 /\ arena_'.blocks = arena_.blocks
            ELSE /\ Len(arena_'.blocks) = Len(arena_.blocks) + 1
                 /\ op'.ret = arena_'.blocks[Len(arena_'.blocks)].base
                 /\ arena_'.alloc_ptr_ \in {arena_.alloc_ptr_, op'.ret + op'.arg}]_vars

\* An Allocate has been served from the active block, after an earlier
\* allocation, and a third call went to the fallback path.
C10_Witness ==
  /\ Len(allocs) = 3
  /\ allocs[2].p = allocs[1].p + allocs[1].bytes
  /\ allocs[2].bytes > 0
  /\ op.name = "Allocate"
  /\ op.ret # op.from

\* The operations that only read the list.
ReadOps ==
  {"Contains", "Iterator", "Valid", "key", "Next", "Prev", "Seek", "SeekToFirst",
   "SeekToLast"}

\* C11 (Spec): Contains and every iterator operation leave every node's key
\* and forward pointers, max_height_ and the arena as they were; a step that
\* changes any of them is a call of Insert.
C11_ReadersChangeNothing ==
  [][/\ op'.name \in ReadOps => UNCHANGED listvars
     /\ listvars' # listvars => op'.name = "Insert"]_vars

\* Seek has run on a list of at least two nodes.
C11_Witness == op.name = "Seek" /\ status = "running" /\ Len(key) >= 2

\* The key of a node, with the head below every key.
KeyOf(n) == IF n = head_ THEN 0 ELSE key[n]

\* What is left of a search: levels still to descend, then keys still to pass.
Measure(f) == f.level * (MaxKey + 1) + (MaxKey - KeyOf(f.x))

\* From f the loop iteration g returns at level 0, or moves right to a node
\* of strictly greater key, or moves down one level; the measure drops.
Progress(f, g) ==
  /\ g.pc \in {"loop", "ret"}
  /\ g.pc = "ret" => f.level = 0
  /\ g.pc = "loop" =>
       /\ \/ g.level = f.level /\ KeyOf(g.x) > KeyOf(f.x)
          \/ g.level = f.level - 1 /\ g.x = f.x
       /\ g.level >= 0
       /\ Measure(g) < Measure(f)
       /\ Measure(g) >= 0

\* C12 (SpecConc): in every state, also in the middle of an Insert, the next
\* loop iteration of a running FindGreaterOrEqual, FindLessThan or FindLast
\* (the reader's, or the one inside Insert) either returns at level 0, or
\* moves to a node of strictly greater key, or moves down one level, so that
\* a non-negative measure strictly decreases and the search terminates.
C12_SearchTerminates ==
  /\ (status = "running" /\ rd.pc = "loop") =>
       Progress(rd.f, SearchStep(rd.kind, rd.f))
  /\ (status = "running" /\ wr.pc = "find") =>
       Progress(wr.f, FindGreaterOrEqualStep(key, next, wr.f, TRUE))

\* A search that started above level 0 has come down to a node at level 0
\* while the writer is in the middle of a splice.
C12_Witness ==
  /\ rd.pc = "loop" /\ rd.hint > 1 /\ rd.f.level = 0 /\ rd.f.x # head_
  /\ wr.pc \in {"own", "publish"}

-----------------------------------------------------------------------------
(* SpecTall: the writer alone, one step at a time, with nodes of every     *)
(* height RandomHeight can return, the tallest included.                   *)

MaxTallKey == 3
MaxTallNodes == 3
MaxTallLuck == 12

TallKeys == 1..MaxTallKey

\* How many times in a row rnd_.Next() % kBranching is 0: short runs, and
\* runs that reach or pass the cap of RandomHeight.
TallLucks == {0, 1, 2, MaxTallLuck - 1, MaxTallLuck}

\* The writer enters Insert(k).
TallCall ==
  \E k \in TallKeys :
    /\ status = "running"
    /\ wr.pc = "idle"
    /\ Len(key) < MaxTallNodes
    /\ wr' = InsertBegin(List, k)
    /\ UNCHANGED <<listvars, allocs, rd, node_, op, status>>

\* The writer's next step.
TallStep ==
  \E luck \in (IF wr.pc = "check" THEN TallLucks ELSE {0}) :
    /\ status = "running"
    /\ wr.pc \notin {"idle", "abort", "ub"}
    /\ LET s == InsertStep(List, wr, luck) IN
         /\ SetList(s.l)
         /\ wr' = s.w
         /\ status' = IF s.w.pc = "abort" THEN "aborted"
                      ELSE IF s.w.pc = "ub" THEN "ub" ELSE "running"
    /\ UNCHANGED <<allocs, rd, node_, op>>

NextTall ==
  \/ TallCall
  \/ TallStep

SpecTall == Init /\ [][NextTall]_vars

\* a is b with some elements left out.
RECURSIVE IsSubsequence(_, _)
IsSubsequence(a, b) ==
  IF a = <<>> THEN TRUE
  ELSE IF b = <<>> THEN FALSE
  ELSE IF Head(a) = Head(b) THEN IsSubsequence(Tail(a), Tail(b))
  ELSE IsSubsequence(a, Tail(b))

\* C13 (SpecTall): at every step of every Insert, for each level L in 1..11
\* the keys along the level-L chain are strictly increasing and the level-L
\* chain is a subsequence of the level-(L-1) chain.
C13_UpperChainsAreSubsequences ==
  \A L \in 1..(kMaxHeight - 1) :
    LET c == Chain(L)
        d == Chain(L - 1)
    IN /\ \A j \in 1..(Len(c) - 1) : compare_(key[c[j]], key[c[j + 1]]) < 0
       /\ IsSubsequence(c, d)

\* An Insert has spliced its node into levels 0 and 1, next to an older node
\* of level 1, and has level 2 still to do.
C13_Witness == wr.pc = "own" /\ wr.i = 2 /\ Len(Chain(1)) = 2

-----------------------------------------------------------------------------
(* SpecContains: the writer, one step at a time, and a reader that calls   *)
(* Contains, one loop iteration of its search at a time.                   *)

\* The reader enters Contains(k); had records whether Insert(k) had
\* returned by then.
ContainsCall ==
  \E k \in ConcKeys, hint \in hints :
    /\ status = "running"
    /\ rd.pc \in {"idle", "ret"}
    /\ rd' = [pc |-> "loop", f |-> FindInit(k, hint), had |-> k \in Returned,
              ret |-> "void"]
    /\ UNCHANGED <<listvars, allocs, wr, node_, op, status>>

\* The next loop iteration of the search of Contains, and its return.
ContainsStep ==
  /\ status = "running"
  /\ rd.pc = "loop"
  /\ LET g == FindGreaterOrEqualStep(key, next, rd.f, FALSE) IN
       /\ rd' = [rd EXCEPT !.f = g,
                           !.pc = g.pc,
                           !.ret = IF g.pc = "ret"
                                     THEN ContainsResult(key, rd.f.key, g.ret)
                                     ELSE @]
       /\ status' = IF g.pc = "ub" THEN "ub" ELSE "running"
  /\ UNCHANGED <<listvars, allocs, wr, node_, op>>

NextContains ==
  \/ WriterCall
  \/ WriterStep
  \/ ContainsCall
  \/ ContainsStep

SpecContains == Init /\ [][NextContains]_vars

\* The nodes on the level-i chain.
Reachable(i) == LET c == Chain(i) IN {c[j] : j \in 1..Len(c)}

\* The keys on the level-0 chain.
Keys0 == {key[n] : n \in Reachable(0)}

\* No step takes a node off a chain, turns a link into end-of-list, or takes
\* a key off level 0.
LinksOnlyAdded ==
  \/ next' = next /\ key' = key
  \/ /\ \A i \in 0..(kMaxHeight - 1) : Reachable(i) \subseteq Reachable(i)'
     /\ \A n \in DOMAIN next : \A i \in DOMAIN next[n] :
          next[n][i] >= 0 => next'[n][i] >= 0
     /\ Keys0 \subseteq Keys0'

\* C14 (SpecContains): a node reachable from head_ at some level stays
\* reachable at that level in every later state, no link to a node is ever
\* taken away, the set of keys on level 0 only grows, and a Contains(k) that
\* started after Insert(k) had returned yields true, whatever Inserts run
\* meanwhile.
C14_LinksOnlyAdded ==
  /\ [][LinksOnlyAdded]_vars
  /\ [](/\ Returned \subseteq Keys0
        /\ (rd.pc = "ret" /\ rd.had) => rd.ret = "true")

\* A Contains of a key inserted before it started has returned while the
\* writer is splicing a smaller key in front of that key's node.
C14_Witness ==
  /\ rd.pc = "ret" /\ rd.had
  /\ wr.pc \in {"own", "publish"} /\ wr.key < rd.f.key

\* The node holding the greatest key, nullptr on an empty list.
LastNode == StrictPredecessor(MaxKey + 1)

\* C15 (Spec): on an empty list SeekToFirst() and SeekToLast() leave the
\* iterator invalid; Prev() from the node with the smallest key and Next()
\* from the node with the greatest key leave it invalid; the iterator is
\* never on head_.
C15_IteratorEdges ==
  status = "running" =>
    /\ (op.name \in {"SeekToFirst", "SeekToLast"} /\ Len(key) = 0) => ~Valid(node_)
    /\ (op.name = "Prev" /\ op.from = LowerBound(1)) => ~Valid(node_)
    /\ (op.name = "Next" /\ op.from = LastNode) => ~Valid(node_)
    /\ node_ # head_

\* The same without the sentence on Next().
EdgesButNext ==
  status = "running" =>
    /\ (op.name \in {"SeekToFirst", "SeekToLast"} /\ Len(key) = 0) => ~Valid(node_)
    /\ (op.name = "Prev" /\ op.from = LowerBound(1)) => ~Valid(node_)
    /\ node_ # head_

\* C16 (SpecTall): RandomHeight returns a height in 1..12 however many
\* draws in a row succeed; Insert indexes prev and forward slots only
\* within 0..11 and below the node's height; every prev[i] below the chosen
\* height holds a node (from the search or the head fill) before the splice
\* dereferences it.
C16_HeightAndSlotsInRange ==
  /\ \A luck \in 0..(2 * kMaxHeight) : RandomHeight(luck) \in 1..kMaxHeight
  /\ wr.pc = "find" => wr.f.level \in 0..(kMaxHeight - 1)
  /\ wr.pc \in {"newnode", "own", "publish"} =>
       /\ wr.height \in 1..kMaxHeight
       /\ \A i \in 0..(wr.height - 1) : wr.f.prev[i] \in DOMAIN next
  /\ wr.pc \in {"own", "publish"} =>
       /\ wr.i \in 0..(kMaxHeight - 1)
       /\ wr.i < wr.height
       /\ wr.i \in DOMAIN next[wr.x]
       /\ wr.i \in DOMAIN next[wr.f.prev[wr.i]]
  /\ status # "ub"

\* An Insert is about to splice the top slot of a node of the greatest
\* height, next to an older node.
C16_Witness == wr.pc = "own" /\ wr.i = kMaxHeight - 1 /\ Len(key) >= 2

\* The number of forward slots of node n.
Height(n) == Cardinality(DOMAIN next[n])

\* The greatest of 1 and the heights of the nodes made so far.
TallestNode ==
  LET hs == {1} \cup {Height(n) : n \in 1..Len(key)}
  IN CHOOSE h \in hs : \A g \in hs : g <= h

\* C17 (SpecTall): max_height_ is 1 after construction, never decreases,
\* stays within 1..12, equals the greatest of 1 and the heights of all nodes
\* whenever no Insert is under way, and head_'s forward pointer is nullptr
\* at every level >= max_height_ in every state.
C17_MaxHeight ==
  /\ max_height_ = 1
  /\ [](/\ max_height_ \in 1..kMaxHeight
        /\ wr.pc = "idle" => max_height_ = TallestNode
        /\ \A i \in max_height_..(kMaxHeight - 1) : next[head_][i] = nullptr)
  /\ [][max_height_' >= max_height_]_vars

\* An Insert of a node lower than max_height_ has returned after an Insert
\* that raised max_height_ above 1.
C17_Witness ==
  /\ wr.pc = "idle" /\ status = "running" /\ Len(key) >= 2
  /\ max_height_ > 1 /\ Height(Len(key)) < max_height_

\* The keys of S in ascending order.
RECURSIVE Ascending(_)
Ascending(S) ==
  IF S = {} THEN <<>>
  ELSE LET m == CHOOSE x \in S : \A y \in S : x <= y IN <<m>> \o Ascending(S \ {m})

\* The list after Insert of each key of ks in turn, every node of height 1.
RECURSIVE InsertAll(_, _)
InsertAll(l, ks) ==
  IF ks = <<>> THEN l ELSE InsertAll(Insert(l, Head(ks), 0).l, Tail(ks))

\* The keys along the level-0 chain of list l.
Level0Keys(l) ==
  LET c == ChainFrom(l.next, 0, head_, Len(l.key) + 1)
  IN [j \in 1..Len(c) |-> l.key[c[j]]]

\* The node of l that holds key p; nullptr for p = 0 (an iterator on none).
NodeOf(l, p) ==
  IF p = 0 THEN nullptr ELSE CHOOSE n \in 1..Len(l.key) : l.key[n] = p

\* What Seek(target) does to an iterator that stands on key p of list l:
\* how the call ends and the key it lands on (0 for none).
SeekAnswer(l, p, target) ==
  LET o == IteratorSeek(l, NodeOf(l, p), target)
  IN [status |-> o.status,
      key |-> IF o.node_ \in 1..Len(l.key) THEN l.key[o.node_] ELSE 0]

\* C20 (SpecTall): whenever the Inserts so far have returned, in whatever
\* order they ran and whatever heights in 1..12 their nodes got, the keys
\* along the level-0 chain are the inserted keys in ascending order, and
\* Contains and Seek answer as they do on the list made by inserting the
\* same keys in ascending order with nodes of height 1.
C20_OrderAndHeightsDoNotMatter ==
  (wr.pc = "idle" /\ status = "running") =>
    LET S == {key[n] : n \in 1..Len(key)}
        c == InsertAll(SkipListInit, Ascending(S))
    IN /\ Level0Keys(List) = Ascending(S)
       /\ Level0Keys(c) = Ascending(S)
       /\ \A k \in TallKeys : Contains(List, k) = Contains(c, k)
       /\ \A p \in S \cup {0} : \A t \in TallKeys :
            SeekAnswer(List, p, t) = SeekAnswer(c, p, t)

\* Three Inserts have returned that ran in neither ascending nor descending
\* order and made nodes of different heights, one of them of height 12.
C20_Witness ==
  /\ wr.pc = "idle" /\ status = "running" /\ Len(key) = 3
  /\ key[1] > key[2] /\ key[2] < key[3]
  /\ Height(2) = kMaxHeight /\ Height(3) = 1

-----------------------------------------------------------------------------
(* SpecIter: the writer, one step at a time, and a reader that runs        *)
(* for (it.SeekToFirst(); it.Valid(); it.Next()) over it.key().            *)

MaxSeen == 3

\* it.SeekToFirst(): the walk starts; before holds the keys whose Insert
\* has returned.
IterStart ==
  /\ status = "running"
  /\ rd.pc \in {"idle", "done"}
  /\ LET o == IteratorSeekToFirst(List, node_) IN
       /\ node_' = o.node_
       /\ status' = o.status
  /\ rd' = [pc |-> "iter", seen |-> <<>>, before |-> Returned]
  /\ UNCHANGED <<listvars, allocs, wr, op>>

\* it.Valid() is true: the body reads it.key(), then it.Next() runs.
IterVisit ==
  /\ status = "running"
  /\ rd.pc = "iter"
  /\ Valid(node_)
  /\ Len(rd.seen) < MaxSeen
  /\ LET k == IteratorKey(List, node_)
         o == IteratorNext(List, node_)
     IN /\ rd' = [rd EXCEPT !.seen = Append(@, k.ret)]
        /\ node_' = o.node_
        /\ status' = o.status
  /\ UNCHANGED <<listvars, allocs, wr, op>>

\* it.Valid() is false: the walk is over.
IterEnd ==
  /\ status = "running"
  /\ rd.pc = "iter"
  /\ ~Valid(node_)
  /\ rd' = [rd EXCEPT !.pc = "done"]
  /\ UNCHANGED <<listvars, allocs, wr, node_, op, status>>

NextIter ==
  \/ WriterCall
  \/ WriterStep
  \/ IterStart
  \/ IterVisit
  \/ IterEnd

SpecIter == Init /\ [][NextIter]_vars

\* C18 (SpecIter): the keys a reader has seen walking with SeekToFirst()
\* and Next() while the writer inserts are strictly ascending (so none is
\* seen twice), and when the walk is over they include every key whose
\* Insert had returned before the walk started.
C18_IterationAscending ==
  rd.pc \in {"iter", "done"} =>
    /\ \A j \in 1..(Len(rd.seen) - 1) : compare_(rd.seen[j], rd.seen[j + 1]) < 0
    /\ rd.pc = "done" => rd.before \subseteq {rd.seen[j] : j \in 1..Len(rd.seen)}

-----------------------------------------------------------------------------
(* SpecTwo: two threads call Insert with distinct keys, against the        *)
(* single-writer rule, their steps interleaved.  wr[t] is the call of      *)
(* thread t; rd.overlap notes whether a call ever began while the other    *)
(* thread was inside Insert.  The steps are taken one at a time, NewNode   *)
(* (and its arena allocation) included: executions in which the two        *)
(* allocations race as well add outcomes to these and take none away.      *)

MaxTwoKey == 2
MaxTwoNodes == 2

TwoKeys == 1..MaxTwoKey
Threads == {1, 2}

InitTwo ==
  /\ key = SkipListInit.key
  /\ next = SkipListInit.next
  /\ max_height_ = SkipListInit.max_height_
  /\ hints = SkipListInit.hints
  /\ arena_ = SkipListInit.arena
  /\ allocs = <<>>
  /\ wr = [t \in Threads |-> Idle]
  /\ rd = [overlap |-> FALSE]
  /\ node_ = nullptr
  /\ op = NoOp
  /\ status = "running"

\* The threads that are inside Insert.
Inside == {t \in Threads : wr[t].pc # "idle"}

\* Thread t enters Insert(k), k a key no call has been given yet.
TwoCall ==
  \E t \in Threads, k \in TwoKeys :
    /\ status = "running"
    /\ wr[t].pc = "idle"
    /\ Len(key) + Cardinality({u \in Inside : wr[u].pc \in {"find", "check", "newnode"}})
         < MaxTwoNodes
    /\ k \notin {key[n] : n \in 1..Len(key)} \cup {wr[u].key : u \in Inside}
    /\ wr' = [wr EXCEPT ![t] = InsertBegin(List, k)]
    /\ rd' = [overlap |-> rd.overlap \/ Inside # {}]
    /\ UNCHANGED <<listvars, allocs, node_, op, status>>

\* The next step of thread t's call.
TwoStep ==
  \E t \in Threads :
    \E luck \in (IF wr[t].pc = "check" THEN Lucks ELSE {0}) :
      /\ status = "running"
      /\ wr[t].pc \notin {"idle", "abort", "ub"}
      /\ LET s == InsertStep(List, wr[t], luck) IN
           /\ SetList(s.l)
           /\ wr' = [wr EXCEPT ![t] = s.w]
           /\ status' = IF s.w.pc = "abort" THEN "aborted"
                        ELSE IF s.w.pc = "ub" THEN "ub" ELSE "running"
      /\ UNCHANGED <<allocs, rd, node_, op>>

NextTwo ==
  \/ TwoCall
  \/ TwoStep

SpecTwo == InitTwo /\ [][NextTwo]_vars

\* C19 (SpecTwo): when two threads call Insert with distinct keys, a key
\* whose Insert has returned can be missing from the level-0 chain, and is
\* missing only if a call began while the other thread was inside Insert:
\* calls that keep to the single-writer rule lose nothing, calls that break
\* it can lose a node.
C19_LossNeedsOverlap ==
  (status = "running" /\ Inside = {} /\ Keys0 # {key[n] : n \in 1..Len(key)})
    => rd.overlap

\* Both calls have returned, both nodes exist, and one of the two keys is
\* not on the level-0 chain: Contains does not find it.
C19_Witness ==
  /\ status = "running" /\ Inside = {} /\ Len(key) = 2
  /\ \E n \in 1..Len(key) :
       /\ key[n] \notin Keys0
       /\ Contains(List, key[n]) # "true"

====
